---- MODULE Spec2Model ----
(***************************************************************************)
(* openpnpy: the PnP message envelope (PnpMessage), the service body       *)
(* builders (openpnpy.messages) and the three-endpoint exchange dispatcher *)
(* (PnpServer), modelled from src/src/openpnpy/server.py and               *)
(* src/src/openpnpy/messages.py.                                           *)
(*                                                                         *)
(* XML elements are objects on a heap, so that copying and aliasing are    *)
(* distinguishable: an element's identity is <<owner, n>>, the n-th object *)
(* created on behalf of owner (a worker serving an exchange, or the        *)
(* application for a body it keeps).  The objects of an exchange are freed *)
(* when its worker is released.  An XML string is a nested value (tag,     *)
(* attrib, text, children) or a string that is not well-formed.            *)
(***************************************************************************)
EXTENDS Integers, Sequences, FiniteSets, TLC

(***************************************************************************)
(* Bounds of the model.                                                    *)
(***************************************************************************)
\* children under the root of an incoming envelope: 0 .. MaxChildren
MaxChildren == 2

\* the worker threads of the HTTP transport that serve exchanges concurrently
Slots == {"w1", "w2"}

(***************************************************************************)
(* Python values.                                                          *)
(***************************************************************************)
\* Python's None, as an attribute value or an element's text
None == "<None>"

\* Python's True and False, and an int, where a string is expected: values
\* that are not strings
True == "<True>"
False == "<False>"

RECURSIVE str(_)
Digit == <<"0", "1", "2", "3", "4", "5", "6", "7", "8", "9">>
\* str(n) of an int: its decimal digits
str(n) ==
    IF n < 0 THEN "-" \o str(-n)
    ELSE IF n < 10 THEN Digit[n + 1]
    ELSE str(n \div 10) \o Digit[(n % 10) + 1]

PyInt(n) == "<int " \o str(n) \o ">"

\* the ints that occur as attribute values: the max_size arguments of cli_exec
MaxSizes == {0, 1024}

\* the values that are not of type str
NonStrings == {None, True, False} \cup {PyInt(n) : n \in MaxSizes}

\* dict.get(key): None when the key is absent
Get(attrib, key) == IF key \in DOMAIN attrib THEN attrib[key] ELSE None

\* dict[key] = value
Put(attrib, key, value) == (key :> value) @@ attrib

\* an empty dict
NoAttrib == <<>>

Element(tag, attrib, text, children) ==
    [tag |-> tag, attrib |-> attrib, text |-> text, children |-> children]

\* the placeholder of a response without an XML body
NoDoc == Element("", NoAttrib, None, <<>>)

\* no object
Null == <<"", 0>>

\* the identity of the next object created on behalf of owner
New(h, owner) == <<owner, 1 + Cardinality({i \in DOMAIN h : i[1] = owner})>>

\* the heap with object id holding element
Store(h, id, element) == (id :> element) @@ h

(***************************************************************************)
(* xml.etree.ElementTree: parsing, serialisation, deep copy.               *)
(***************************************************************************)
RECURSIVE Flatten(_)
\* the lists of a list, one after the other
Flatten(lists) == IF lists = <<>> THEN <<>> ELSE Head(lists) \o Flatten(Tail(lists))

RECURSIVE Places(_)
\* the places of the elements of a document in the order they are created,
\* children before their parent: the root is at <<>>, and the i-th child of
\* the element at p is at Append(p, i)
Places(doc) ==
    Flatten([i \in DOMAIN doc.children |->
                LET below == Places(doc.children[i])
                IN  [k \in DOMAIN below |-> <<i>> \o below[k]]])
    \o << <<>> >>

RECURSIVE At(_, _)
\* the element of a document at a place
At(doc, p) == IF p = <<>> THEN doc ELSE At(doc.children[Head(p)], Tail(p))

\* the element objects of a document, children first: <<heap, id of the root>>
Build(h, owner, doc) ==
    LET places == Places(doc)
        base == Cardinality({i \in DOMAIN h : i[1] = owner})
        id(p) == <<owner, base + (CHOOSE k \in DOMAIN places : places[k] = p)>>
        objs == [n \in {<<owner, base + k>> : k \in DOMAIN places} |->
                    LET p == places[n[2] - base]
                        e == At(doc, p)
                    IN  Element(e.tag, e.attrib, e.text,
                                [i \in DOMAIN e.children |-> id(Append(p, i))])]
    IN  <<objs @@ h, id(<<>>)>>

\* a string is an XML document, or it is not well-formed (empty, or garbage)
Xml(doc) == [kind |-> "xml", root |-> doc]
Garbage == [kind |-> "garbage", root |-> NoDoc]
Empty == [kind |-> "empty", root |-> NoDoc]
ErrorPage == [kind |-> "error", root |-> NoDoc]
WellFormed(data) == data.kind = "xml"

\* ElementTree.fromstring: ParseError when the string is not well-formed XML,
\* else the root element of the parsed tree
fromstring(h, owner, data) ==
    IF ~WellFormed(data)
    THEN [ok |-> FALSE, err |-> "ParseError", heap |-> h, root |-> Null]
    ELSE LET b == Build(h, owner, data.root)
         IN  [ok |-> TRUE, err |-> "", heap |-> b[1], root |-> b[2]]

RECURSIVE Doc(_, _)
RECURSIVE DocAll(_, _)
\* the document an element tree serialises to
Doc(h, n) == Element(h[n].tag, h[n].attrib, h[n].text, DocAll(h, h[n].children))

DocAll(h, ns) == [i \in DOMAIN ns |-> Doc(h, ns[i])]

RECURSIVE Reach(_, _)
\* the elements of the tree under n
Reach(h, n) == {n} \cup UNION {Reach(h, h[n].children[i]) : i \in DOMAIN h[n].children}

\* an attribute value that is not a string (None, a bool, an int) cannot be
\* serialised
Serialisable(h, n) ==
    \A m \in Reach(h, n) : \A k \in DOMAIN h[m].attrib : h[m].attrib[k] \notin NonStrings

RECURSIVE Written(_)
\* what is written for a document: an element whose text is the empty string
\* is written like one without text, and is read back with text None
Written(doc) ==
    Element(doc.tag, doc.attrib, IF doc.text = "" THEN None ELSE doc.text,
            [i \in DOMAIN doc.children |-> Written(doc.children[i])])

\* ElementTree.tostring: TypeError on an attribute value that is not a string
tostring(h, n) ==
    IF Serialisable(h, n)
    THEN [ok |-> TRUE, err |-> "", xml |-> Xml(Written(Doc(h, n)))]
    ELSE [ok |-> FALSE, err |-> "TypeError", xml |-> ErrorPage]

RECURSIVE deepcopy(_, _, _)
RECURSIVE deepcopyAll(_, _, _)
\* copy.deepcopy of an element: new objects for the whole tree under n
deepcopy(h, owner, n) ==
    LET kids == deepcopyAll(h, owner, h[n].children)
        id == New(kids[1], owner)
    IN  <<Store(kids[1], id, [h[n] EXCEPT !.children = kids[2]]), id>>

deepcopyAll(h, owner, ns) ==
    IF ns = <<>> THEN <<h, <<>>>>
    ELSE LET c == deepcopy(h, owner, Head(ns))
             r == deepcopyAll(c[1], owner, Tail(ns))
         IN  <<r[1], <<c[2]>> \o r[2]>>

(***************************************************************************)
(* openpnpy.messages: the service body builders.                           *)
(***************************************************************************)
\* device_info(type): <request xmlns=device-info><deviceInfo type=.../></request>
device_info(type) ==
    Element("{urn:cisco:pnp:device-info}request", NoAttrib, None,
            <<Element("deviceInfo", Put(NoAttrib, "type", type), None, <<>>)>>)

\* bye(): <info xmlns=work-info><workInfo><bye/></workInfo></info>
bye ==
    Element("{urn:cisco:pnp:work-info}info", NoAttrib, None,
            <<Element("workInfo", NoAttrib, None,
                      <<Element("bye", NoAttrib, None, <<>>)>>)>>)

\* ContextualTreeBuilder: with ctb.start(tag): ctb.data(text)
Leaf(tag, text) == Element(tag, NoAttrib, text, <<>>)

\* the elements of a list that are there (a block under an if that was not
\* taken adds nothing)
Present(elements) == SelectSeq(elements, LAMBDA x : x # NoDoc)

\* backoff with the timer taking precedence over defaultMinutes
backoff_timer_first(hours, minutes, seconds, default_minutes, terminate, reason) ==
    LET unit(tag, n) == IF n # 0 THEN Leaf(tag, str(n)) ELSE NoDoc
        mode == IF terminate THEN Leaf("terminate", None)
                ELSE IF hours # 0 \/ minutes # 0 \/ seconds # 0
                THEN Element("callBackAfter", NoAttrib, None,
                             Present(<<unit("hours", hours), unit("minutes", minutes),
                                       unit("seconds", seconds)>>))
                ELSE IF default_minutes # 0
                THEN Leaf("defaultMinutes", str(default_minutes))
                ELSE NoDoc
    IN  Element("{urn:cisco:pnp:backoff}request", NoAttrib, None,
                <<Element("backoff", NoAttrib, None,
                          Present(<<Leaf("reason", reason), mode>>))>>)

\* backoff(hours, minutes, seconds, default_minutes, terminate, reason):
\* reason, then terminate, else defaultMinutes, else callBackAfter with the
\* units that are not zero; nothing is validated
backoff(hours, minutes, seconds, default_minutes, terminate, reason) ==
    LET unit(tag, n) == IF n # 0 THEN Leaf(tag, str(n)) ELSE NoDoc
        mode == IF terminate THEN Leaf("terminate", None)
                ELSE IF default_minutes # 0
                THEN Leaf("defaultMinutes", str(default_minutes))
                ELSE IF hours # 0 \/ minutes # 0 \/ seconds # 0
                THEN Element("callBackAfter", NoAttrib, None,
                             Present(<<unit("hours", hours), unit("minutes", minutes),
                                       unit("seconds", seconds)>>))
                ELSE NoDoc
    IN  Element("{urn:cisco:pnp:backoff}request", NoAttrib, None,
                <<Element("backoff", NoAttrib, None,
                          Present(<<Leaf("reason", reason), mode>>))>>)

\* config_upgrade(location, details, apply_to, abort_on_fault, checksum,
\* reload, reload_reason, reload_delay, reload_user, reload_save)
config_upgrade(location, details, apply_to, abort_on_fault, checksum, reload, reload_reason, reload_delay, reload_user, reload_save) ==
    LET source == Element("source", NoAttrib, None,
                          Present(<<Leaf("location", location),
                                    IF checksum # "" THEN Leaf("checksum", checksum)
                                    ELSE NoDoc>>))
        config == Element("config", Put(NoAttrib, "details", details), None,
                          <<Element("copy", NoAttrib, None,
                                    <<source, Leaf("applyTo", apply_to)>>)>>)
        rl == IF reload
              THEN Element("reload", NoAttrib, None,
                           <<Leaf("reason", reload_reason),
                             Leaf("delayIn", str(reload_delay)),
                             Leaf("user", reload_user),
                             Leaf("saveConfig", str(IF reload_save THEN 1 ELSE 0))>>)
              ELSE Leaf("noReload", None)
    IN  Element("{urn:cisco:pnp:config-upgrade}request", NoAttrib, None,
                Present(<<config, rl,
                          IF abort_on_fault THEN Leaf("abortOnSyntaxFault", None)
                          ELSE NoDoc>>))

\* an entry of commands: a str, or a tuple (expect, reply[, match[,
\* case_sensitive[, repeat]]])
Cmd(text) == [str |-> TRUE, text |-> text, items |-> <<>>]
DialogTuple(items) == [str |-> FALSE, text |-> "", items |-> items]

\* cli_config(commands, details, check, on_fail, write): configTest when
\* check, else configApply; configPersist only when write and not check;
\* nothing is validated
cli_config(commands, details, check, on_fail, write) ==
    LET attrib == IF check THEN Put(NoAttrib, "details", details)
                  ELSE Put(Put(NoAttrib, "details", details), "action-on-fail", on_fail)
        data == Element("config-data", NoAttrib, None,
                        <<Element("cli-config-data", NoAttrib, None,
                                  [i \in DOMAIN commands |-> Leaf("cmd", commands[i])])>>)
    IN  Element("{urn:cisco:pnp:cli-config}request", NoAttrib, None,
                Present(<<Element(IF check THEN "configTest" ELSE "configApply",
                                  attrib, None, <<data>>),
                          IF write /\ ~check THEN Leaf("configPersist", None)
                          ELSE NoDoc>>))

\* Dialog(*cmd): the namedtuple with defaults=['exact', True, 1]
Dialog(items) ==
    [expect |-> items[1], reply |-> items[2],
     match |-> IF Len(items) >= 3 THEN items[3] ELSE "exact",
     case_sensitive |-> IF Len(items) >= 4 THEN items[4] ELSE True,
     repeat |-> IF Len(items) >= 5 THEN items[5] ELSE 1]

\* cli_exec(commands, details, max_wait, max_size, check): execTest with the
\* str entries only when check, else execCLI with a cmd per str entry and a
\* dialog per tuple; max_size and case_sensitive become attribute values as
\* they are (an int, a bool)
cli_exec(commands, details, max_wait, max_size, check) ==
    LET entry(c) ==
            IF c.str THEN Leaf("cmd", c.text)
            ELSE LET dialog == Dialog(c.items)
                 IN  Element("dialog", Put(NoAttrib, "repeat", str(dialog.repeat)), None,
                             <<Element("expect",
                                       Put(Put(NoAttrib, "match", dialog.match),
                                           "caseSensitive", dialog.case_sensitive),
                                       dialog.expect, <<>>),
                               Leaf("reply", dialog.reply)>>)
        strs == SelectSeq(commands, LAMBDA c : c.str)
    IN  Element("{urn:cisco:pnp:cli-exec}request", NoAttrib, None,
                <<IF check
                  THEN Element("execTest", Put(NoAttrib, "details", details), None,
                               <<Element("exec-data", NoAttrib, None,
                                         <<Element("cli-exec-data", NoAttrib, None,
                                                   [i \in DOMAIN strs |-> entry(strs[i])])>>)>>)
                  ELSE Element("execCLI",
                               Put(Put(NoAttrib, "maxWait", "PT" \o str(max_wait) \o "S"),
                                   "maxResponseSize", PyInt(max_size)),
                               None, [i \in DOMAIN commands |-> entry(commands[i])])>>)

(***************************************************************************)
(* PnpMessage: an envelope is the root element of its tree.                *)
(***************************************************************************)
\* PnpMessage.from_string
from_string(h, owner, xmlstring) == fromstring(h, owner, xmlstring)

\* PnpMessage.udi
udi(h, root) == Get(h[root].attrib, "udi")

\* PnpMessage.username, PnpMessage.password: the getters return nothing
username(h, root) == None

password(h, root) == None

\* PnpMessage.username.setter
SetUsername(h, root, value) ==
    [h EXCEPT ![root].attrib = Put(@, "username", value)]

\* PnpMessage.password.setter
SetPassword(h, root, value) ==
    [h EXCEPT ![root].attrib = Put(@, "password", value)]

\* PnpMessage.body is root[0]: IndexError when the root has no child
HasBody(h, root) == Len(h[root].children) > 0

body(h, root) == h[root].children[1]

\* PnpMessage.correlator
correlator(h, root) == Get(h[body(h, root)].attrib, "correlator")

\* body.setter with its two statements swapped: the correlator is read from
\* the element that was just installed
SetBodySwapped(h, root, element) ==
    IF ~HasBody(h, root)
    THEN [ok |-> FALSE, err |-> "IndexError", heap |-> h]
    ELSE LET h1 == [h EXCEPT ![root].children = [@ EXCEPT ![1] = element]]
         IN  [ok |-> TRUE, err |-> "",
              heap |-> [h1 EXCEPT ![element].attrib =
                                    Put(@, "correlator", correlator(h1, root))]]

\* body.setter that keeps a correlator the element already carries
SetBodyKeep(h, root, element) ==
    IF ~HasBody(h, root)
    THEN [ok |-> FALSE, err |-> "IndexError", heap |-> h]
    ELSE LET c == correlator(h, root)
             h1 == IF "correlator" \in DOMAIN h[element].attrib THEN h
                   ELSE [h EXCEPT ![element].attrib = Put(@, "correlator", c)]
         IN  [ok |-> TRUE, err |-> "",
              heap |-> [h1 EXCEPT ![root].children = [@ EXCEPT ![1] = element]]]

\* PnpMessage.body.setter: element.set('correlator', self.correlator), then
\* self.root[0] = element
SetBody(h, root, element) ==
    IF ~HasBody(h, root)
    THEN [ok |-> FALSE, err |-> "IndexError", heap |-> h]
    ELSE LET c == correlator(h, root)
             h1 == [h EXCEPT ![element].attrib = Put(@, "correlator", c)]
         IN  [ok |-> TRUE, err |-> "",
              heap |-> [h1 EXCEPT ![root].children = [@ EXCEPT ![1] = element]]]

\* make_reply without the copy: the receiver itself gets the new body
make_reply_alias(h, self, element) ==
    LET s == SetBody(h, self, element)
    IN  [ok |-> s.ok, err |-> s.err, heap |-> s.heap, root |-> self]

\* make_reply that installs a copy of the element it is given
make_reply_copy(h, self, element) ==
    LET c == deepcopy(h, self[1], self)
        b == deepcopy(c[1], self[1], element)
        s == SetBody(b[1], c[2], b[2])
    IN  [ok |-> s.ok, err |-> s.err, heap |-> s.heap, root |-> c[2]]

\* PnpMessage.make_reply: response = deepcopy(self); response.body = element
\* (the copy belongs to the owner of the receiver)
make_reply(h, self, element) ==
    LET c == deepcopy(h, self[1], self)
        s == SetBody(c[1], c[2], element)
    IN  [ok |-> s.ok, err |-> s.err, heap |-> s.heap, root |-> c[2]]

\* PnpMessage.to_string
to_string(h, root) == tostring(h, root)

\* PnpMessage.success: None without a success attribute on the body, else
\* bool(int(s)); int raises ValueError on a string that is not a number
Numerals == {"0", "1", "2"}

\* success that reads a missing attribute as "0"
success_default(h, root) ==
    LET s == Get(h[body(h, root)].attrib, "success")
    IN  IF s = None \/ s = "0" THEN [ok |-> TRUE, err |-> "", value |-> False]
        ELSE IF s \notin Numerals
        THEN [ok |-> FALSE, err |-> "ValueError", value |-> None]
        ELSE [ok |-> TRUE, err |-> "", value |-> True]

success(h, root) ==
    LET s == Get(h[body(h, root)].attrib, "success")
    IN  IF s = None THEN [ok |-> TRUE, err |-> "", value |-> None]
        ELSE IF s \notin Numerals
        THEN [ok |-> FALSE, err |-> "ValueError", value |-> None]
        ELSE [ok |-> TRUE, err |-> "", value |-> IF s = "0" THEN False ELSE True]

(***************************************************************************)
(* udi_to_dict: the regular expression, on the pieces a string is made of. *)
(***************************************************************************)
RECURSIVE Join(_)
\* the string made of pieces
Join(pieces) == IF pieces = <<>> THEN "" ELSE Head(pieces) \o Join(Tail(pieces))

\* the udi strings of the model, by their pieces: the literals of the
\* pattern, and text that contains none of them
UdiPieces ==
    { <<"PID:", "A", ",VID:", "V01", ",SN:", "1">>,
      <<"PID:", "B", ",VID:", "V01", ",SN:", "2">>,
      <<"PID:", "A", ",VID:", "V01", ",SN:", "1", ",VID:", "V02", ",SN:", "9">>,
      <<"PID:", "A", ",VID:", "V01">>,
      <<"PID:", ",VID:", ",SN:">>,
      <<"x", "PID:", "A", ",VID:", "V01", ",SN:", "1">>,
      <<"garbage">> }

\* the pieces of a string
Pieces(string) == CHOOSE p \in UdiPieces : Join(p) = string

\* re.match(r'PID:(?P<PID>.+),VID:(?P<VID>.+),SN:(?P<SN>.+)', udi): the match
\* starts at the start of the string, each group takes at least one
\* character and as many as it can; no match is None
re_match(string) ==
    LET p == Pieces(string)
        \* ,SN: can be at j when ,VID: is at i
        sn(i) == {j \in i + 2 .. Len(p) - 1 : p[j] = ",SN:"}
        vid == {i \in 3 .. Len(p) : p[i] = ",VID:" /\ sn(i) # {}}
        max(set) == CHOOSE i \in set : \A j \in set : j <= i
    IN  IF Len(p) = 0 \/ p[1] # "PID:" \/ vid = {}
        THEN [matched |-> FALSE, PID |-> "", VID |-> "", SN |-> ""]
        ELSE LET i == max(vid)
                 j == max(sn(i))
             IN  [matched |-> TRUE,
                  PID |-> Join(SubSeq(p, 2, i - 1)),
                  VID |-> Join(SubSeq(p, i + 1, j - 1)),
                  SN |-> Join(SubSeq(p, j + 1, Len(p)))]

\* udi_to_dict(udi): m.groupdict(); re.match raises TypeError when udi is
\* None, and m.groupdict() raises AttributeError when there is no match
udi_to_dict(string) ==
    IF string = None THEN [ok |-> FALSE, err |-> "TypeError", value |-> <<>>]
    ELSE LET m == re_match(string)
         IN  IF ~m.matched
             THEN [ok |-> FALSE, err |-> "AttributeError", value |-> <<>>]
             ELSE [ok |-> TRUE, err |-> "",
                   value |-> [k \in {"PID", "VID", "SN"} |-> m[k]]]

(***************************************************************************)
(* PnpDeviceInfo.to_dict.                                                  *)
(***************************************************************************)
\* a tag in a namespace, as ElementTree writes it
QName(ns, local) == "{" \o ns \o "}" \o local

\* the namespaces of PnP messages
Namespaces ==
    {"urn:cisco:pnp", "urn:cisco:pnp:device-info", "urn:cisco:pnp:work-info"}

\* the path '{*}local' selects a tag with this local name in any namespace
\* or in none
Selects(local, tag) == tag = local \/ \E ns \in Namespaces : tag = QName(ns, local)

\* Element.find('{*}local'): the first child the path selects, or None
find(h, n, local) ==
    LET hit == {i \in DOMAIN h[n].children : Selects(local, h[h[n].children[i]].tag)}
    IN  IF hit = {} THEN Null
        ELSE h[n].children[CHOOSE i \in hit : \A j \in hit : i <= j]

\* the truth value of find's result in an if: None is false, and an element
\* is true when it has children
Truthy(h, n) == n # Null /\ Len(h[n].children) > 0

RECURSIVE iter(_, _)
RECURSIVE iterAll(_, _)
\* Element.iter(): the element itself, then the elements under it, in
\* document order
iter(h, n) == <<n>> \o iterAll(h, h[n].children)

iterAll(h, ns) == IF ns = <<>> THEN <<>> ELSE iter(h, Head(ns)) \o iterAll(h, Tail(ns))

\* 'port' in e.tag, for the tags of the model: those with the local name port
HasPort(tag) == Selects("port", tag)

\* the first error among results, in the order of evaluation
FirstError(results) ==
    LET bad == {i \in DOMAIN results : ~results[i].ok}
    IN  IF bad = {} THEN ""
        ELSE results[CHOOSE i \in bad : \A j \in bad : i <= j].err

\* parent.find('{*}local').text: AttributeError when find returns None
TextOf(h, n, local) ==
    LET c == find(h, n, local)
    IN  IF c = Null THEN [ok |-> FALSE, err |-> "AttributeError", value |-> None]
        ELSE [ok |-> TRUE, err |-> "", value |-> h[c].text]

\* info[name] = section.find('{*}name').text for the names of a section
Leaves(h, n, names) ==
    LET t == [i \in DOMAIN names |-> TextOf(h, n, names[i])]
    IN  [ok |-> FirstError(t) = "", err |-> FirstError(t),
         value |-> [k \in {names[i] : i \in DOMAIN names} |->
                       TextOf(h, n, k).value]]

HardwareInfoNames ==
    <<"hostname", "vendor", "platformName", "processorType", "hwRevision",
      "mainMemSize", "ioMemSize", "boardId", "boardReworkId", "processorRev",
      "midplaneVersion", "location">>

ImageInfoNames ==
    <<"versionString", "imageFile", "imageHash", "returnToRomReason",
      "bootVariable", "bootLdrVariable", "configVariable", "configReg",
      "configRegNext">>

FileSystemNames == {"name", "type", "writable", "readable", "size", "freespace"}

\* a section that is skipped adds nothing
Skipped == [ok |-> TRUE, err |-> "", value |-> <<>>]

\* the same with the records in the reverse of the document order
FileSystemList_reversed(h, response) ==
    LET file_systems == find(h, response, "fileSystemList")
        n == Len(h[file_systems].children)
    IN  IF ~Truthy(h, file_systems) THEN Skipped
        ELSE [ok |-> TRUE, err |-> "",
              value |-> "fileSystemList" :>
                  [i \in 1 .. n |->
                      [k \in FileSystemNames |->
                          Get(h[h[file_systems].children[n + 1 - i]].attrib, k)]]]

\* if file_systems: one record per child with its attributes
FileSystemList(h, response) ==
    LET file_systems == find(h, response, "fileSystemList")
    IN  IF ~Truthy(h, file_systems) THEN Skipped
        ELSE [ok |-> TRUE, err |-> "",
              value |-> "fileSystemList" :>
                  [i \in DOMAIN h[file_systems].children |->
                      [k \in FileSystemNames |->
                          Get(h[h[file_systems].children[i]].attrib, k)]]]

\* the udis of the members of a list, each with the slot when slots is true
Members(h, list, slots) ==
    LET d == [i \in DOMAIN h[list].children |->
                 udi_to_dict(h[h[list].children[i]].text)]
    IN  [ok |-> FirstError(d) = "", err |-> FirstError(d),
         value |-> [i \in DOMAIN d |->
                       IF slots
                       THEN d[i].value @@
                            ("slot" :> Get(h[h[list].children[i]].attrib, "slot"))
                       ELSE d[i].value]]

\* if udi: primary-chassis, then stacked-switch and ha-device when they have
\* members
UdiSection(h, response) ==
    LET u == find(h, response, "udi")
    IN  IF ~Truthy(h, u) THEN Skipped
        ELSE LET t == TextOf(h, u, "primary-chassis")
                 chassis == IF t.ok THEN udi_to_dict(t.value) ELSE t
                 ha == find(h, u, "ha-device")
                 stack == find(h, u, "stacked-switch")
                 sm == IF Truthy(h, stack) THEN Members(h, stack, TRUE) ELSE Skipped
                 hm == IF Truthy(h, ha) THEN Members(h, ha, FALSE) ELSE Skipped
                 all == <<chassis, sm, hm>>
             IN  [ok |-> FirstError(all) = "", err |-> FirstError(all),
                  value |-> (IF Truthy(h, ha) THEN "ha-device" :> hm.value ELSE <<>>)
                         @@ (IF Truthy(h, stack) THEN "stacked-switch" :> sm.value
                             ELSE <<>>)
                         @@ ("primary-chassis" :> chassis.value)]

\* if hw_info: the text of each leaf
HardwareInfo(h, response) ==
    LET hw_info == find(h, response, "hardwareInfo")
    IN  IF ~Truthy(h, hw_info) THEN Skipped ELSE Leaves(h, hw_info, HardwareInfoNames)

\* the same without the test of image_info: an absent section raises
ImageInfo_required(h, response) ==
    LET image_info == find(h, response, "imageInfo")
    IN  IF image_info = Null
        THEN [ok |-> FALSE, err |-> "AttributeError", value |-> <<>>]
        ELSE Leaves(h, image_info, ImageInfoNames)

\* if image_info: the text of each leaf
ImageInfo(h, response) ==
    LET image_info == find(h, response, "imageInfo")
    IN  IF ~Truthy(h, image_info) THEN Skipped ELSE Leaves(h, image_info, ImageInfoNames)

RECURSIVE Updates(_, _, _, _)
\* for e in server_address.iter(): port from an element whose tag contains
\* 'port', else server-address and, when typed, server-address-type
Updates(h, es, record, typed) ==
    IF es = <<>> THEN record
    ELSE LET e == h[Head(es)]
             r == IF HasPort(e.tag) THEN Put(record, "port", e.text)
                  ELSE IF typed
                  THEN Put(Put(record, "server-address", e.text),
                           "server-address-type", e.tag)
                  ELSE Put(record, "server-address", e.text)
         IN  Updates(h, Tail(es), r, typed)

\* the record of a server: its protocol, and what the loop over its
\* server-address adds; AttributeError when an element is not found
ServerRecord(h, server, typed) ==
    IF server = Null THEN [ok |-> FALSE, err |-> "AttributeError", value |-> <<>>]
    ELSE LET protocol == TextOf(h, server, "protocol")
             address == find(h, server, "server-address")
         IN  IF ~protocol.ok THEN [ok |-> FALSE, err |-> protocol.err, value |-> <<>>]
             ELSE IF address = Null
             THEN [ok |-> FALSE, err |-> "AttributeError", value |-> <<>>]
             ELSE [ok |-> TRUE, err |-> "",
                   value |-> Updates(h, iter(h, address),
                                     Put(NoAttrib, "protocol", protocol.value), typed)]

\* the record of a profile: the server-address-type is kept for the primary
\* server only; the backup server is read when it has children
Profile(h, profile) ==
    LET primary_server == find(h, profile, "primary-server")
        backup_server == find(h, profile, "backup-server")
        p == [k \in {"profile-name", "discovery-created", "created-by"} |->
                 Get(h[profile].attrib, k)]
        ps == ServerRecord(h, primary_server, TRUE)
        bs == IF Truthy(h, backup_server) THEN ServerRecord(h, backup_server, FALSE)
              ELSE Skipped
        both == <<ps, bs>>
    IN  [ok |-> FirstError(both) = "", err |-> FirstError(both),
         value |-> (IF Truthy(h, backup_server) THEN "backup-server" :> bs.value
                    ELSE <<>>)
                @@ ("primary-server" :> ps.value) @@ p]

\* if profile_info: one record per profile
ProfileInfo(h, response) ==
    LET profile_info == find(h, response, "profileInfo")
    IN  IF ~Truthy(h, profile_info) THEN Skipped
        ELSE LET ps == [i \in DOMAIN h[profile_info].children |->
                           Profile(h, h[profile_info].children[i])]
             IN  [ok |-> FirstError(ps) = "", err |-> FirstError(ps),
                  value |-> "profileInfo" :> [i \in DOMAIN ps |-> ps[i].value]]

\* PnpDeviceInfo.to_dict: the udi of the envelope, then the sections of the
\* response that are found; the first exception ends it
to_dict(h, root) ==
    LET top == udi_to_dict(udi(h, root))
        response == find(h, root, "response")
    IN  IF ~top.ok THEN [ok |-> FALSE, err |-> top.err, info |-> <<>>]
        ELSE IF response = Null
        THEN [ok |-> FALSE, err |-> "AttributeError", info |-> <<>>]
        ELSE LET parts == <<FileSystemList(h, response), UdiSection(h, response),
                            HardwareInfo(h, response), ImageInfo(h, response),
                            ProfileInfo(h, response)>>
             IN  IF FirstError(parts) # ""
                 THEN [ok |-> FALSE, err |-> FirstError(parts), info |-> <<>>]
                 ELSE [ok |-> TRUE, err |-> "",
                       info |-> parts[5].value @@ parts[4].value @@ parts[3].value
                                @@ parts[2].value @@ parts[1].value @@ top.value]

(***************************************************************************)
(* The requests a PnP agent sends.                                         *)
(***************************************************************************)
\* each worker serves the connection of one device: its session
Session == [e \in Slots |-> IF e = "w1" THEN 1 ELSE 2]
Udis == <<"PID:A,VID:V01,SN:1", "PID:B,VID:V01,SN:2">>
Correlators == <<"CiscoPnP-1.0-1", "CiscoPnP-1.0-2">>

\* the root attributes of session i; the first session carries credentials
RootAttrib(i) ==
    LET a == Put(Put(NoAttrib, "version", "1.0"), "udi", Udis[i])
    IN  IF i = 1 THEN Put(Put(a, "username", "admin"), "password", "secret") ELSE a

\* the first child of an envelope, with or without a correlator attribute
AgentBody(i, withCorrelator) ==
    Element("{urn:cisco:pnp:work-info}info",
            IF withCorrelator THEN Put(NoAttrib, "correlator", Correlators[i])
            ELSE NoAttrib,
            None, <<>>)

ExtraChild == Element("extra", NoAttrib, None, <<>>)

\* an envelope of session i with k children under the root
Envelope(i, k, withCorrelator) ==
    Element("{urn:cisco:pnp}pnp", RootAttrib(i), None,
            [j \in 1 .. k |-> IF j = 1 THEN AgentBody(i, withCorrelator)
                              ELSE ExtraChild])

\* the request bodies: not XML at all, or an envelope with 0 .. MaxChildren
\* children whose first child carries a correlator or (one child) none
RequestData(i) ==
    {Garbage}
    \cup {Xml(Envelope(i, k, TRUE)) : k \in 0 .. MaxChildren}
    \cup {Xml(Envelope(i, 1, FALSE))}

Request(method, path, data) == [method |-> method, path |-> path, data |-> data]
NoRequest == Request("", "", Empty)

\* the requests of session i: a POST of any data to a work endpoint, a GET or
\* a POST to HELLO with or without a body, a GET to a work endpoint
Requests(i) ==
    {Request("POST", p, d) : p \in {"/pnp/WORK-REQUEST", "/pnp/WORK-RESPONSE"},
                            d \in RequestData(i)}
    \cup {Request(m, "/pnp/HELLO", d) :
             m \in {"GET", "POST"}, d \in {Empty, Garbage, Xml(Envelope(i, 1, TRUE))}}
    \cup {Request("GET", "/pnp/WORK-REQUEST", Xml(Envelope(i, 1, TRUE)))}

(***************************************************************************)
(* PnpServer: the URL rules, the view functions, the handlers.             *)
(***************************************************************************)
\* Flask.add_url_rule(rule, endpoint, view_func, methods=None): a rule without
\* methods answers GET only.  wrapped: the view is self.reply(handler).
UrlRule(rule, endpoint, wrapped, handler, methods) ==
    [rule |-> rule, endpoint |-> endpoint, wrapped |-> wrapped,
     handler |-> handler, methods |-> methods]

\* the rules with the handlers of the two work endpoints exchanged
UrlRulesCrossed ==
    { UrlRule("/pnp/HELLO", "hello", FALSE, "handle_hello", {"GET"}),
      UrlRule("/pnp/WORK-REQUEST", "work_request", TRUE, "handle_work_response", {"POST"}),
      UrlRule("/pnp/WORK-RESPONSE", "work_response", TRUE, "handle_work_request", {"POST"}) }

\* the rules with hello wrapped by reply like the work endpoints
UrlRulesHelloWrapped ==
    { UrlRule("/pnp/HELLO", "hello", TRUE, "handle_work_request", {"GET"}),
      UrlRule("/pnp/WORK-REQUEST", "work_request", TRUE, "handle_work_request", {"POST"}),
      UrlRule("/pnp/WORK-RESPONSE", "work_response", TRUE, "handle_work_response", {"POST"}) }

\* PnpServer.__init__
UrlRules ==
    { UrlRule("/pnp/HELLO", "hello", FALSE, "handle_hello", {"GET"}),
      UrlRule("/pnp/WORK-REQUEST", "work_request", TRUE, "handle_work_request", {"POST"}),
      UrlRule("/pnp/WORK-RESPONSE", "work_response", TRUE, "handle_work_response", {"POST"}) }

WorkHandlers == {"handle_work_request", "handle_work_response"}

\* routing of the transport: 404 without a rule for the path, 405 when the
\* rule does not allow the method
Route(method, path) ==
    LET m == {r \in UrlRules : r.rule = path}
    IN  IF m = {} THEN [status |-> 404, rule |-> UrlRule("", "", FALSE, "", {})]
        ELSE LET r == CHOOSE r \in m : TRUE
             IN  [status |-> IF method \in r.methods THEN 200 ELSE 405, rule |-> r]

\* the responses of the transport
Response(status, error, data) == [status |-> status, error |-> error, body |-> data]
NoResponse == Response(0, "", Empty)
\* an exception that escapes the view function ends the exchange with 500
Failure(error) == Response(500, error, ErrorPage)

\* what an overriding handler does with a request: build a body with one of
\* the builders, return a body it built earlier and kept, raise, or set the
\* credentials and the correlator on the request it was given and build a body
HandlerChoices == {"device_info", "kept", "raise", "login"}

\* what the handler of choice "login" writes on the request
HandlerUsername == "provisioner"
HandlerPassword == "letmein"
HandlerCorrelator == "CiscoPnP-1.0-9"

\* agent_request.username = ..; agent_request.password = ..;
\* agent_request.body.set('correlator', ..): the request with these set
Login(h, agent_request) ==
    LET h1 == SetPassword(SetUsername(h, agent_request, HandlerUsername),
                          agent_request, HandlerPassword)
    IN  [h1 EXCEPT ![body(h1, agent_request)].attrib =
                      Put(@, "correlator", HandlerCorrelator)]

\* the handler of choice "login" working on a copy of the request it was
\* given: what it sets does not reach the envelope the reply is made from
UserHandler_detached(h, k, owner, agent_request, ch) ==
    IF ch = "raise"
    THEN [ok |-> FALSE, err |-> "HandlerError", heap |-> h, kept |-> k, element |-> Null]
    ELSE IF ch = "kept" /\ k # Null
    THEN [ok |-> TRUE, err |-> "", heap |-> h, kept |-> k, element |-> k]
    ELSE IF ch = "kept"
    THEN LET b == Build(h, "app", bye)
         IN  [ok |-> TRUE, err |-> "", heap |-> b[1], kept |-> b[2], element |-> b[2]]
    ELSE IF ch = "login" /\ ~HasBody(h, agent_request)
    THEN [ok |-> FALSE, err |-> "IndexError", heap |-> h, kept |-> k, element |-> Null]
    ELSE IF ch = "login"
    THEN LET c == deepcopy(h, owner, agent_request)
             b == Build(Login(c[1], c[2]), owner, device_info("all"))
         IN  [ok |-> TRUE, err |-> "", heap |-> b[1], kept |-> k, element |-> b[2]]
    ELSE LET b == Build(h, owner, device_info("all"))
         IN  [ok |-> TRUE, err |-> "", heap |-> b[1], kept |-> k, element |-> b[2]]

\* an overriding handler (as in docs/example_server.py): the body it returns,
\* device_info() built for this request, or a bye() it builds once and keeps;
\* with choice "login" it first writes on agent_request (IndexError from
\* agent_request.body when the root has no child)
UserHandler(h, k, owner, agent_request, ch) ==
    IF ch = "raise"
    THEN [ok |-> FALSE, err |-> "HandlerError", heap |-> h, kept |-> k, element |-> Null]
    ELSE IF ch = "kept" /\ k # Null
    THEN [ok |-> TRUE, err |-> "", heap |-> h, kept |-> k, element |-> k]
    ELSE IF ch = "kept"
    THEN LET b == Build(h, "app", bye)
         IN  [ok |-> TRUE, err |-> "", heap |-> b[1], kept |-> b[2], element |-> b[2]]
    ELSE IF ch = "login" /\ ~HasBody(h, agent_request)
    THEN [ok |-> FALSE, err |-> "IndexError", heap |-> h, kept |-> k, element |-> Null]
    ELSE IF ch = "login"
    THEN LET b == Build(Login(h, agent_request), owner, device_info("all"))
         IN  [ok |-> TRUE, err |-> "", heap |-> b[1], kept |-> k, element |-> b[2]]
    ELSE LET b == Build(h, owner, device_info("all"))
         IN  [ok |-> TRUE, err |-> "", heap |-> b[1], kept |-> k, element |-> b[2]]

\* a default handler that returns a body instead of raising
DefaultHandlerReturns(h, k, owner) ==
    LET b == Build(h, owner, bye)
    IN  [ok |-> TRUE, err |-> "", heap |-> b[1], kept |-> k, element |-> b[2]]

\* PnpServer.handle_work_request, PnpServer.handle_work_response:
\* raise NotImplementedError
DefaultHandler(h, k, owner) ==
    [ok |-> FALSE, err |-> "NotImplementedError", heap |-> h, kept |-> k, element |-> Null]

(***************************************************************************)
(* The state: the heap of element objects, the handler bindings, the body  *)
(* an overriding handler keeps, and per worker the exchange it serves.     *)
(***************************************************************************)
VARIABLES
    heap,        \* the element objects, by identity
    overridden,  \* the handlers the application overrides (fixed at startup)
    kept,        \* the body element a handler built earlier and kept, or Null
    pc,          \* per worker: the step of the exchange it is at
    request,     \* per worker: method, path and data of the request
    req,         \* per worker: agent_request (its root element), or Null
    out,         \* per worker: the element the handler returned, or Null
    rep,         \* per worker: server_response (its root element), or Null
    resp,        \* per worker: the response sent
    log,         \* per worker: the calls made for the exchange, in order
    choice,      \* per worker: what the overriding handler did
    edited,      \* per worker: whether the reply was changed after make_reply
    after        \* per worker: the exchange started after a failed one ended

vars == <<heap, overridden, kept, pc, request, req, out, rep, resp, log, choice,
          edited, after>>

(***************************************************************************)
(* The state of an application that uses the library directly, without the *)
(* server: it calls a builder, wraps the body in an envelope and writes    *)
(* and reads it, or it reads and decodes a message an agent sent.          *)
(***************************************************************************)
VARIABLES
    step,      \* the last call the application made, "" before the first
    called,    \* the builder called: its name and its arguments
    objects,   \* the element objects of the application, by identity
    built,     \* the element the builder returned, or Null
    envelope,  \* the envelope make_reply returned (its root), or Null
    wire,      \* what to_string returned
    message,   \* the XML text of the message an agent sent
    parsed,    \* the envelope from_string returned (its root), or Null
    reads,     \* what the accessors returned when they were read
    info       \* what to_dict returned

lib == <<step, called, objects, built, envelope, wire, message, parsed, reads, info>>

NoCall == [name |-> "", args |-> <<>>]
NoWire == [ok |-> FALSE, err |-> "", xml |-> Empty]
NoReads == <<>>
NoInfo == [ok |-> FALSE, err |-> "", info |-> <<>>]

\* the application has called nothing
LibIdle ==
    /\ step = ""
    /\ called = NoCall
    /\ objects = <<>>
    /\ built = Null
    /\ envelope = Null
    /\ wire = NoWire
    /\ message = Empty
    /\ parsed = Null
    /\ reads = NoReads
    /\ info = NoInfo

Init ==
    /\ LibIdle
    /\ heap = <<>>
    /\ overridden \in SUBSET WorkHandlers
    /\ kept = Null
    /\ pc = [e \in Slots |-> "idle"]
    /\ request = [e \in Slots |-> NoRequest]
    /\ req = [e \in Slots |-> Null]
    /\ out = [e \in Slots |-> Null]
    /\ rep = [e \in Slots |-> Null]
    /\ resp = [e \in Slots |-> NoResponse]
    /\ log = [e \in Slots |-> <<>>]
    /\ choice = [e \in Slots |-> ""]
    /\ edited = [e \in Slots |-> FALSE]
    /\ after = [e \in Slots |-> FALSE]

Active(e) == pc[e] \notin {"idle", "done"}

Failed(e) == pc[e] = "done" /\ resp[e].status = 500

\* the rule the request of worker e was routed to
Rule(e) == Route(request[e].method, request[e].path).rule

\* the exchange of worker e ends with an exception
Raise(e, error) ==
    /\ pc' = [pc EXCEPT ![e] = "done"]
    /\ resp' = [resp EXCEPT ![e] = Failure(error)]

\* The transport receives a request and routes it: 404 or 405 without calling
\* a view function, else the view function of the rule is called.
Receive(e) ==
    /\ pc[e] = "idle"
    /\ \E r \in Requests(Session[e]) :
          LET rt == Route(r.method, r.path)
          IN  /\ request' = [request EXCEPT ![e] = r]
              /\ IF rt.status # 200
                 THEN /\ pc' = [pc EXCEPT ![e] = "done"]
                      /\ resp' = [resp EXCEPT ![e] = Response(rt.status, "", ErrorPage)]
                 ELSE /\ pc' = [pc EXCEPT ![e] = IF rt.rule.wrapped THEN "from_string"
                                                 ELSE "view"]
                      /\ UNCHANGED resp
    /\ after' = [after EXCEPT ![e] = \E g \in Slots \ {e} : Failed(g)]
    /\ UNCHANGED <<heap, overridden, kept, req, out, rep, log, choice, edited>>
    /\ UNCHANGED lib

\* PnpServer.handle_hello, called as the view function: an empty 200
handle_hello(e) ==
    /\ pc[e] = "view"
    /\ pc' = [pc EXCEPT ![e] = "done"]
    /\ resp' = [resp EXCEPT ![e] = Response(200, "", Empty)]
    /\ log' = [log EXCEPT ![e] = Append(@, Rule(e).handler)]
    /\ UNCHANGED <<heap, overridden, kept, request, req, out, rep, choice, edited,
                   after>>
    /\ UNCHANGED lib

\* inner, first statement: agent_request = PnpMessage.from_string(data)
Parse(e) ==
    /\ pc[e] = "from_string"
    /\ log' = [log EXCEPT ![e] = Append(@, "from_string")]
    /\ LET r == from_string(heap, e, request[e].data)
       IN  IF r.ok
           THEN /\ heap' = r.heap
                /\ req' = [req EXCEPT ![e] = r.root]
                /\ pc' = [pc EXCEPT ![e] = "handler"]
                /\ UNCHANGED resp
           ELSE /\ Raise(e, r.err)
                /\ UNCHANGED <<heap, req>>
    /\ UNCHANGED <<overridden, kept, request, out, rep, choice, edited, after>>
    /\ UNCHANGED lib

\* the handler has run on agent_request with result r
Handled(e, r) ==
    /\ log' = [log EXCEPT ![e] = Append(@, Rule(e).handler)]
    /\ heap' = r.heap
    /\ kept' = r.kept
    /\ IF r.ok
       THEN /\ out' = [out EXCEPT ![e] = r.element]
            /\ pc' = [pc EXCEPT ![e] = "make_reply"]
            /\ UNCHANGED resp
       ELSE /\ Raise(e, r.err)
            /\ UNCHANGED out
    /\ UNCHANGED <<overridden, request, req, rep, edited, after>>
    /\ UNCHANGED lib

\* inner, second statement, handler(agent_request): the handler of the class
HandleDefault(e) ==
    /\ pc[e] = "handler"
    /\ Rule(e).handler \notin overridden
    /\ Handled(e, DefaultHandler(heap, kept, e))
    /\ UNCHANGED choice

\* inner, second statement, handler(agent_request): the application's override
HandleOverride(e) ==
    /\ pc[e] = "handler"
    /\ Rule(e).handler \in overridden
    /\ \E ch \in HandlerChoices :
          /\ Handled(e, UserHandler(heap, kept, e, req[e], ch))
          /\ choice' = [choice EXCEPT ![e] = ch]

\* inner, second statement: server_response = agent_request.make_reply(body)
MakeReply(e) ==
    /\ pc[e] = "make_reply"
    /\ log' = [log EXCEPT ![e] = Append(@, "make_reply")]
    /\ LET r == make_reply(heap, req[e], out[e])
       IN  /\ heap' = r.heap
           /\ IF r.ok
              THEN /\ rep' = [rep EXCEPT ![e] = r.root]
                   /\ pc' = [pc EXCEPT ![e] = "to_string"]
                   /\ UNCHANGED resp
              ELSE /\ Raise(e, r.err)
                   /\ UNCHANGED rep
    /\ UNCHANGED <<overridden, kept, request, req, out, choice, edited, after>>
    /\ UNCHANGED lib

\* the holder of a reply changes it through the username setter
EditReply(e) ==
    /\ pc[e] = "to_string"
    /\ ~edited[e]
    /\ heap' = SetUsername(heap, rep[e], "operator")
    /\ edited' = [edited EXCEPT ![e] = TRUE]
    /\ UNCHANGED <<overridden, kept, pc, request, req, out, rep, resp, log, choice,
                   after>>
    /\ UNCHANGED lib

\* inner, last statement: return server_response.to_string(), 200
Serialize(e) ==
    /\ pc[e] = "to_string"
    /\ log' = [log EXCEPT ![e] = Append(@, "to_string")]
    /\ LET r == to_string(heap, rep[e])
       IN  IF r.ok
           THEN /\ resp' = [resp EXCEPT ![e] = Response(200, "", r.xml)]
                /\ pc' = [pc EXCEPT ![e] = "done"]
           ELSE Raise(e, r.err)
    /\ UNCHANGED <<heap, overridden, kept, request, req, out, rep, choice, edited,
                   after>>
    /\ UNCHANGED lib

\* the worker is done with the exchange and free for the next request; the
\* objects of the exchange are freed
Release(e) ==
    /\ pc[e] = "done"
    /\ pc' = [pc EXCEPT ![e] = "idle"]
    /\ heap' = [i \in {j \in DOMAIN heap : j[1] # e} |-> heap[i]]
    /\ request' = [request EXCEPT ![e] = NoRequest]
    /\ req' = [req EXCEPT ![e] = Null]
    /\ out' = [out EXCEPT ![e] = Null]
    /\ rep' = [rep EXCEPT ![e] = Null]
    /\ resp' = [resp EXCEPT ![e] = NoResponse]
    /\ log' = [log EXCEPT ![e] = <<>>]
    /\ choice' = [choice EXCEPT ![e] = ""]
    /\ edited' = [edited EXCEPT ![e] = FALSE]
    /\ after' = [after EXCEPT ![e] = FALSE]
    /\ UNCHANGED <<overridden, kept>>
    /\ UNCHANGED lib

Next ==
    \E e \in Slots :
        \/ Receive(e)
        \/ handle_hello(e)
        \/ Parse(e)
        \/ HandleDefault(e)
        \/ HandleOverride(e)
        \/ MakeReply(e)
        \/ EditReply(e)
        \/ Serialize(e)
        \/ Release(e)

Spec == Init /\ [][Next]_vars

\* A transport that serves one request at a time: a request is received only
\* when no other exchange is in progress.
ReceiveInTurn(e) ==
    /\ \A g \in Slots \ {e} : ~Active(g)
    /\ Receive(e)

NextInTurn ==
    \E e \in Slots :
        \/ ReceiveInTurn(e)
        \/ handle_hello(e)
        \/ Parse(e)
        \/ HandleDefault(e)
        \/ HandleOverride(e)
        \/ MakeReply(e)
        \/ EditReply(e)
        \/ Serialize(e)
        \/ Release(e)

SpecInTurn == Init /\ [][NextInTurn]_vars

(***************************************************************************)
(* An application that calls the builders and the envelope directly.       *)
(***************************************************************************)
\* the longest list of commands given to cli_config and cli_exec
MaxCommands == 2

\* the server is not started
ServerIdle ==
    /\ heap = <<>>
    /\ overridden = {}
    /\ kept = Null
    /\ pc = [e \in Slots |-> "idle"]
    /\ request = [e \in Slots |-> NoRequest]
    /\ req = [e \in Slots |-> Null]
    /\ out = [e \in Slots |-> Null]
    /\ rep = [e \in Slots |-> Null]
    /\ resp = [e \in Slots |-> NoResponse]
    /\ log = [e \in Slots |-> <<>>]
    /\ choice = [e \in Slots |-> ""]
    /\ edited = [e \in Slots |-> FALSE]
    /\ after = [e \in Slots |-> FALSE]

\* the lists of at most MaxCommands entries drawn from a set
Lists(entries) == UNION {[1 .. n -> entries] : n \in 0 .. MaxCommands}

\* the arguments the builders are called with: inside and outside the
\* documented ranges, alone and in contradictory combinations
BackoffArgs ==
    [hours : {0, 1, 48}, minutes : {0, 23, 60}, seconds : {0, 11, -1},
     default_minutes : {0, 5, 2881}, terminate : BOOLEAN,
     reason : {"No Reason", ""}]

DeviceInfoArgs == [type : {"all", "image", "hardware"}]

ConfigUpgradeArgs ==
    [location : {"http://10.0.0.1/config"}, details : {"all", "brief"},
     apply_to : {"startup"}, abort_on_fault : BOOLEAN, checksum : {"", "0xABCD"},
     reload : BOOLEAN, reload_reason : {"PnP config upgrade"},
     reload_delay : {0, 30}, reload_user : {"PnP Agent"}, reload_save : BOOLEAN]

CliConfigArgs ==
    [commands : Lists({"hostname R1", "no ip domain lookup"}), details : {"all"},
     check : BOOLEAN, on_fail : {"continue", "stop"}, write : BOOLEAN]

CliExecArgs ==
    [commands : Lists({Cmd("show version"), Cmd("show clock"),
                       DialogTuple(<<"Proceed?", "yes">>),
                       DialogTuple(<<"Password:", "cisco", "regex", False, 3>>)}),
     details : {"all"}, max_wait : {10}, max_size : MaxSizes, check : BOOLEAN]

\* the application keeps the element a builder returned
Call(name, args, element) ==
    /\ step = ""
    /\ LET b == Build(objects, "app", element)
       IN  /\ objects' = b[1]
           /\ built' = b[2]
    /\ called' = [name |-> name, args |-> args]
    /\ step' = "built"
    /\ UNCHANGED <<envelope, wire, message, parsed, reads, info>>
    /\ UNCHANGED vars

CallBackoff ==
    \E a \in BackoffArgs :
        Call("backoff", a, backoff(a.hours, a.minutes, a.seconds, a.default_minutes,
                                   a.terminate, a.reason))

CallDeviceInfo ==
    \E a \in DeviceInfoArgs : Call("device_info", a, device_info(a.type))

CallConfigUpgrade ==
    \E a \in ConfigUpgradeArgs :
        Call("config_upgrade", a,
             config_upgrade(a.location, a.details, a.apply_to, a.abort_on_fault,
                            a.checksum, a.reload, a.reload_reason, a.reload_delay,
                            a.reload_user, a.reload_save))

CallBye == Call("bye", <<>>, bye)

CallCliConfig ==
    \E a \in CliConfigArgs :
        Call("cli_config", a, cli_config(a.commands, a.details, a.check, a.on_fail,
                                         a.write))

CallCliExec ==
    \E a \in CliExecArgs :
        Call("cli_exec", a, cli_exec(a.commands, a.details, a.max_wait, a.max_size,
                                     a.check))

\* E = PnpMessage.from_string(request of a session).make_reply(B)
Install ==
    /\ step = "built"
    /\ \E i \in DOMAIN Udis :
          LET src == from_string(objects, "app", Xml(Envelope(i, 1, TRUE)))
              r == make_reply(src.heap, src.root, built)
          IN  /\ objects' = r.heap
              /\ envelope' = r.root
    /\ step' = "make_reply"
    /\ UNCHANGED <<called, built, wire, message, parsed, reads, info>>
    /\ UNCHANGED vars

\* E.username = v; E.password = w, and then both are read
SetCredentials ==
    /\ step = "make_reply"
    /\ \E v \in {"operator", ""} : \E w \in {"s3cret"} :
          LET h == SetPassword(SetUsername(objects, envelope, v), envelope, w)
          IN  /\ objects' = h
              /\ reads' = [set_username |-> v, set_password |-> w,
                           username |-> username(h, envelope),
                           password |-> password(h, envelope)]
    /\ step' = "set"
    /\ UNCHANGED <<called, built, envelope, wire, message, parsed, info>>
    /\ UNCHANGED vars

\* E.to_string()
WriteEnvelope ==
    /\ step \in {"make_reply", "set"}
    /\ wire' = to_string(objects, envelope)
    /\ step' = "to_string"
    /\ UNCHANGED <<called, objects, built, envelope, message, parsed, reads, info>>
    /\ UNCHANGED vars

\* PnpMessage.from_string(E.to_string()), and the credentials are read
ReadEnvelope ==
    /\ step = "to_string"
    /\ wire.ok
    /\ LET r == from_string(objects, "app", wire.xml)
       IN  /\ r.ok
           /\ objects' = r.heap
           /\ parsed' = r.root
           /\ reads' = [username |-> username(r.heap, r.root),
                        password |-> password(r.heap, r.root)]
    /\ message' = wire.xml
    /\ step' = "from_string"
    /\ UNCHANGED <<called, built, envelope, wire, info>>
    /\ UNCHANGED vars

NextCodec ==
    \/ CallBackoff
    \/ CallDeviceInfo
    \/ CallConfigUpgrade
    \/ CallBye
    \/ CallCliConfig
    \/ CallCliExec
    \/ Install
    \/ SetCredentials
    \/ WriteEnvelope
    \/ ReadEnvelope

\* nothing was called yet
InitCodec == ServerIdle /\ LibIdle

SpecCodec == InitCodec /\ [][NextCodec]_<<vars, lib>>

(***************************************************************************)
(* An application that reads and decodes the messages of an agent.         *)
(***************************************************************************)
\* an element of a device-info response: the response declares the default
\* namespace, so every element under it is in it
Info(local, attrib, text, children) ==
    Element(QName("urn:cisco:pnp:device-info", local), attrib, text, children)

InfoLeaf(local, text) == Info(local, NoAttrib, text, <<>>)

\* the udi strings of the model
UdiStrings == {Join(p) : p \in UdiPieces}

\* the udi section: the primary chassis alone, or with a stack of two
UdiSections ==
    { Info("udi", NoAttrib, None, <<InfoLeaf("primary-chassis", Udis[1])>>),
      Info("udi", NoAttrib, None,
           <<InfoLeaf("primary-chassis", Udis[1]),
             Info("stacked-switch", NoAttrib, None,
                  <<Info("member", Put(NoAttrib, "slot", "1"), Udis[1], <<>>),
                    Info("member", Put(NoAttrib, "slot", "2"), Udis[2], <<>>)>>)>>) }

\* the text of the leaves of hardwareInfo and imageInfo in the sample of
\* the tests: an empty element has text None
SampleText ==
    [hostname |-> "WSMA-3945", vendor |-> "Cisco", platformName |-> "CISCO3945-CHASSIS",
     processorType |-> None, hwRevision |-> "1.0", mainMemSize |-> "1010827264",
     ioMemSize |-> "0", boardId |-> "FTX1503AH3V", boardReworkId |-> None,
     processorRev |-> None, midplaneVersion |-> None, location |-> None,
     versionString |-> "15.5(20140930:030825)",
     imageFile |-> "flash0:c3900-ipbasek9-mz.SSA", imageHash |-> None,
     returnToRomReason |-> "reload",
     bootVariable |-> "flash0:c3900-ipbasek9-mz.SSA,12;", bootLdrVariable |-> None,
     configVariable |-> None, configReg |-> "0x0", configRegNext |-> None]

\* hardwareInfo with all its leaves
HardwareInfos ==
    { Info("hardwareInfo", NoAttrib, None,
           [i \in DOMAIN HardwareInfoNames |->
               InfoLeaf(HardwareInfoNames[i], SampleText[HardwareInfoNames[i]])]) }

\* hardwareInfo with one leaf only
PartialHardwareInfo ==
    Info("hardwareInfo", NoAttrib, None, <<InfoLeaf("hostname", "WSMA-3945")>>)

ImageInfos ==
    { Info("imageInfo", NoAttrib, None,
           [i \in DOMAIN ImageInfoNames |->
               InfoLeaf(ImageInfoNames[i], SampleText[ImageInfoNames[i]])]) }

FileSystem(name, type, size, freespace) ==
    Info("fileSystem",
         [k \in FileSystemNames |->
             CASE k = "name" -> name [] k = "type" -> type [] k = "size" -> size
               [] k = "freespace" -> freespace [] OTHER -> "true"],
         None, <<>>)

\* fileSystemList with one file system, or with two
FileSystemLists ==
    { Info("fileSystemList", NoAttrib, None,
           <<FileSystem("flash0", "disk", "512065536", "141590528")>>),
      Info("fileSystemList", NoAttrib, None,
           <<FileSystem("nvram", "nvram", "262136", "255005"),
             FileSystem("flash0", "disk", "512065536", "141590528")>>) }

\* a primary-server or backup-server element: its protocol and the children
\* of its server-address
Server(local, protocol, address) ==
    Info(local, NoAttrib, None,
         <<InfoLeaf("protocol", protocol), Info("server-address", NoAttrib, None, address)>>)

ProfileElement(name, servers) ==
    Info("profile",
         [k \in {"profile-name", "discovery-created", "created-by"} |->
             CASE k = "profile-name" -> name [] k = "discovery-created" -> "true"
               [] OTHER -> "PnP-DHCP"],
         None, servers)

\* profileInfo: the profile of the sample (a primary server without a port,
\* a backup server with a port), or two profiles (a primary server with a
\* port given first and no backup server; a backup server without a port)
ProfileInfos ==
    { Info("profileInfo", NoAttrib, None,
           <<ProfileElement("pnp_profile",
                <<Server("primary-server", "http", <<InfoLeaf("ipv4", "10.0.0.1")>>),
                  Server("backup-server", "http",
                         <<InfoLeaf("ipv4", "10.0.0.2"), InfoLeaf("port", "8080")>>)>>)>>),
      Info("profileInfo", NoAttrib, None,
           <<ProfileElement("first",
                <<Server("primary-server", "https",
                         <<InfoLeaf("port", "443"), InfoLeaf("host", "pnp.example.com")>>)>>),
             ProfileElement("second",
                <<Server("primary-server", "http", <<InfoLeaf("ipv6", "2001:db8::1")>>),
                  Server("backup-server", "http",
                         <<InfoLeaf("ipv4", "10.0.0.2")>>)>>)>>) }

\* a message of an agent: the envelope with a body
AgentMessage(rootAttrib, bodyElement) ==
    Xml(Element(QName("urn:cisco:pnp", "pnp"), rootAttrib, None, <<bodyElement>>))

\* the root attributes with this udi, or without one
WithUdi(string) ==
    IF string = None THEN Put(NoAttrib, "version", "1.0")
    ELSE Put(Put(NoAttrib, "version", "1.0"), "udi", string)

\* the body of a work response, with a success attribute or without
ResponseBody(s, sections) ==
    Info("response",
         IF s = None THEN Put(NoAttrib, "correlator", Correlators[1])
         ELSE Put(Put(NoAttrib, "correlator", Correlators[1]), "success", s),
         None, sections)

\* the sections of a response: each one absent, or one of its forms, in the
\* order of the sample
SectionChoices ==
    { Present(<<u, i, w, f, p>>) :
        u \in UdiSections \cup {NoDoc}, i \in ImageInfos \cup {NoDoc},
        w \in HardwareInfos \cup {NoDoc}, f \in FileSystemLists \cup {NoDoc},
        p \in ProfileInfos \cup {NoDoc} }

\* the messages read: device-info responses of a device with a good udi
\* and any sections; responses with any udi or none and all sections or
\* none; a response with a section that lacks leaves; responses with any
\* success attribute; the bodies of work requests
AgentMessages ==
    {AgentMessage(WithUdi(Udis[1]), ResponseBody("1", s)) : s \in SectionChoices}
    \cup {AgentMessage(WithUdi(u), ResponseBody("1", s)) :
             u \in UdiStrings \cup {None},
             s \in {c \in SectionChoices : Len(c) \in {0, 5}}}
    \cup {AgentMessage(WithUdi(Udis[1]), ResponseBody("1", <<PartialHardwareInfo>>))}
    \cup {AgentMessage(WithUdi(Udis[1]), ResponseBody(s, <<>>)) :
             s \in {None, "0", "1", "2", "true"}}
    \cup {AgentMessage(WithUdi(Udis[1]), b) :
             b \in {AgentBody(1, TRUE), device_info("all")}}

\* a message has arrived
InitDecoder ==
    /\ ServerIdle
    /\ step = ""
    /\ called = NoCall
    /\ objects = <<>>
    /\ built = Null
    /\ envelope = Null
    /\ wire = NoWire
    /\ message \in AgentMessages
    /\ parsed = Null
    /\ reads = NoReads
    /\ info = NoInfo

\* PnpDeviceInfo.from_string(message)
ReadMessage ==
    /\ step = ""
    /\ LET r == from_string(objects, "app", message)
       IN  /\ r.ok
           /\ objects' = r.heap
           /\ parsed' = r.root
    /\ step' = "from_string"
    /\ UNCHANGED <<called, built, envelope, wire, message, reads, info>>
    /\ UNCHANGED vars

\* the success accessor is read
ReadSuccess ==
    /\ step = "from_string"
    /\ reads' = [success |-> success(objects, parsed)]
    /\ step' = "success"
    /\ UNCHANGED <<called, objects, built, envelope, wire, message, parsed, info>>
    /\ UNCHANGED vars

\* PnpDeviceInfo.to_dict()
Decode ==
    /\ step \in {"from_string", "success"}
    /\ info' = to_dict(objects, parsed)
    /\ step' = "to_dict"
    /\ UNCHANGED <<called, objects, built, envelope, wire, message, parsed, reads>>
    /\ UNCHANGED vars

NextDecoder ==
    \/ ReadMessage
    \/ ReadSuccess
    \/ Decode

SpecDecoder == InitDecoder /\ [][NextDecoder]_<<vars, lib>>

(***************************************************************************)
(* Properties.                                                             *)
(***************************************************************************)
\* the objects of the tree under n, with their identities
View(h, n) == [m \in Reach(h, n) |-> h[m]]

WorkPaths == {"/pnp/WORK-REQUEST", "/pnp/WORK-RESPONSE"}

\* the handler the interface binds to a work endpoint
HandlerOf(path) ==
    IF path = "/pnp/WORK-REQUEST" THEN "handle_work_request" ELSE "handle_work_response"

IsPrefix(s, t) == Len(s) <= Len(t) /\ \A i \in 1 .. Len(s) : s[i] = t[i]

\* worker e serves a POST to a work endpoint
WorkExchange(e) ==
    pc[e] # "idle" /\ request[e].method = "POST" /\ request[e].path \in WorkPaths

\* C1: in every step in which make_reply returns a reply for worker e, the
\* reply's udi, username and password are those of the source envelope, its
\* body is the element B that was passed in, and B is as before the call
\* except that its correlator attribute is the source's correlator.
C1_MakeReplyPreserves ==
    [][\A e \in Slots :
         (pc[e] = "make_reply" /\ pc'[e] = "to_string") =>
            LET src == req[e]
                B == out[e]
                r == rep'[e]
            IN  /\ udi(heap', r) = udi(heap, src)
                /\ Get(heap'[r].attrib, "username") = Get(heap[src].attrib, "username")
                /\ Get(heap'[r].attrib, "password") = Get(heap[src].attrib, "password")
                /\ HasBody(heap', r)
                /\ body(heap', r) = B
                /\ "correlator" \in DOMAIN heap'[B].attrib
                /\ heap'[B] = [heap[B] EXCEPT
                                 !.attrib = Put(@, "correlator", correlator(heap, src))]
      ]_vars

\* C1 witness: two replies were built on the same body element, so one
\* make_reply was given a body that already carried a correlator; the reply
\* of e holds it with e's correlator.
C1_Witness ==
    \E e \in Slots : \E g \in Slots \ {e} :
        /\ pc[e] = "to_string" /\ pc[g] = "to_string"
        /\ out[e] = kept /\ out[g] = kept
        /\ correlator(heap, rep[e]) = Correlators[Session[e]]

\* C2: from the call of make_reply on, no step changes the receiver: not
\* make_reply itself, not a later change of the reply's attributes, not a
\* later change of the reply's body element.  The receiver's root, its
\* attributes, its body element and the objects under it stay the same until
\* the exchange is released.
C2_ReceiverUnchanged ==
    [][\A e \in Slots :
         (pc[e] \in {"make_reply", "to_string", "done"} /\ req[e] # Null
          /\ pc'[e] # "idle") =>
            /\ req'[e] = req[e]
            /\ View(heap', req[e]) = View(heap, req[e])
      ]_vars

\* C2 witness: a reply was built, changed through a setter and serialised,
\* and its body element was stamped again for another exchange.
C2_Witness ==
    \E e \in Slots : \E g \in Slots \ {e} :
        /\ pc[e] = "done" /\ resp[e].status = 200 /\ edited[e]
        /\ out[e] = kept /\ out[g] = kept /\ rep[g] # Null
        /\ correlator(heap, rep[e]) = Correlators[Session[g]]

\* C3: an exchange on a work endpoint calls from_string, the endpoint's
\* handler, make_reply and to_string in this order, each at most once and
\* never the other endpoint's handler; when from_string fails, no handler is
\* called; a 200 response follows all four calls and is the serialised reply:
\* the request's root with the handler's output as first child.
C3_ExchangeOrder ==
    \A e \in Slots :
        WorkExchange(e) =>
            LET full == <<"from_string", HandlerOf(request[e].path),
                          "make_reply", "to_string">>
            IN  /\ IsPrefix(log[e], full)
                /\ (pc[e] = "done" /\ ~WellFormed(request[e].data))
                      => log[e] = <<"from_string">>
                /\ (pc[e] = "done" /\ resp[e].status = 200) =>
                      /\ log[e] = full
                      /\ resp[e].error = ""
                      /\ WellFormed(resp[e].body)
                      /\ resp[e].body.root.tag = request[e].data.root.tag
                      /\ Get(resp[e].body.root.attrib, "udi")
                            = Get(request[e].data.root.attrib, "udi")
                      /\ Len(resp[e].body.root.children) >= 1
                      /\ LET b == resp[e].body.root.children[1]
                             o == Doc(heap, out[e])
                         IN  /\ b.tag = o.tag
                             /\ b.text = o.text
                             /\ b.children = o.children

\* C3 witness: a WORK-REQUEST and a WORK-RESPONSE exchange both ended in 200.
C3_Witness ==
    \E e \in Slots : \E g \in Slots \ {e} :
        /\ pc[e] = "done" /\ resp[e].status = 200
        /\ request[e].path = "/pnp/WORK-REQUEST"
        /\ pc[g] = "done" /\ resp[g].status = 200
        /\ request[g].path = "/pnp/WORK-RESPONSE"

\* C4: an exchange on a work endpoint whose handler is not overridden, with
\* a well-formed envelope, ends with NotImplementedError and never with 200.
C4_DefaultUnimplemented ==
    \A e \in Slots :
        (/\ WorkExchange(e) /\ pc[e] = "done"
         /\ WellFormed(request[e].data)
         /\ HandlerOf(request[e].path) \notin overridden)
        => /\ resp[e] = Failure("NotImplementedError")
           /\ resp[e].status # 200

\* C4 witness: both endpoints, not overridden, ended with NotImplementedError.
C4_Witness ==
    \E e \in Slots : \E g \in Slots \ {e} :
        /\ overridden = {}
        /\ pc[e] = "done" /\ request[e].path = "/pnp/WORK-REQUEST"
        /\ pc[g] = "done" /\ request[g].path = "/pnp/WORK-RESPONSE"
        /\ resp[e].error = "NotImplementedError"
        /\ resp[g].error = "NotImplementedError"

\* C5 as stated: a POST to /pnp/HELLO is answered with an empty 200 without
\* parsing and without a work handler.
C5_PostHelloAnswered ==
    \A e \in Slots :
        (pc[e] = "done" /\ request[e].path = "/pnp/HELLO" /\ request[e].method = "POST")
        => /\ resp[e] = Response(200, "", Empty)
           /\ req[e] = Null
           /\ \A i \in DOMAIN log[e] : log[e][i] = "handle_hello"

\* C5 amended: a GET to /pnp/HELLO is answered with an empty 200 whatever the
\* request body is, by handle_hello alone; a POST to /pnp/HELLO is refused by
\* the routing with 405; in neither case is the body parsed or a work handler
\* called.
C5_HelloAnswered ==
    \A e \in Slots :
        (pc[e] # "idle" /\ request[e].path = "/pnp/HELLO") =>
            /\ req[e] = Null /\ out[e] = Null /\ rep[e] = Null
            /\ \A i \in DOMAIN log[e] : log[e][i] = "handle_hello"
            /\ (pc[e] = "done" /\ request[e].method = "GET")
                  => resp[e] = Response(200, "", Empty) /\ log[e] = <<"handle_hello">>
            /\ (pc[e] = "done" /\ request[e].method = "POST")
                  => resp[e].status = 405 /\ log[e] = <<>>

\* C5 witness: a GET to /pnp/HELLO with a body that is not XML was answered,
\* and a POST to /pnp/HELLO was refused.
C5_Witness ==
    \E e \in Slots : \E g \in Slots \ {e} :
        /\ pc[e] = "done" /\ request[e] = Request("GET", "/pnp/HELLO", Garbage)
        /\ resp[e].status = 200
        /\ pc[g] = "done" /\ request[g].path = "/pnp/HELLO"
        /\ request[g].method = "POST"

\* C6: from_string returns an envelope exactly when the data is well-formed
\* XML whose root has exactly one child, and fails otherwise.
C6_ParseRejectsMalformed ==
    \A e \in Slots :
        (WorkExchange(e) /\ pc[e] # "from_string") =>
            (req[e] # Null <=>
                (WellFormed(request[e].data)
                 /\ Len(request[e].data.root.children) = 1))

\* C7: the body of every reply envelope built for a work endpoint has a
\* correlator attribute whose value is a string.
C7_ReplyHasCorrelator ==
    \A e \in Slots :
        rep[e] # Null =>
            /\ "correlator" \in DOMAIN heap[body(heap, rep[e])].attrib
            /\ heap[body(heap, rep[e])].attrib["correlator"] # None

\* C8: every reply envelope built by make_reply has exactly one child under
\* the root, the body element that was passed in.
C8_ReplyHasOneChild ==
    \A e \in Slots :
        rep[e] # Null => heap[rep[e]].children = <<out[e]>>

\* the response to a request served by a server that has served nothing yet:
\* the steps of the exchange on an empty heap, with no body kept
FirstOutcome(rq, ov, owner, ch, ed) ==
    LET rt == Route(rq.method, rq.path)
        p == from_string(<<>>, owner, rq.data)
        hr == IF rt.rule.handler \in ov THEN UserHandler(p.heap, Null, owner, p.root, ch)
              ELSE DefaultHandler(p.heap, Null, owner)
        mr == make_reply(hr.heap, p.root, hr.element)
        h2 == IF ed THEN SetUsername(mr.heap, mr.root, "operator") ELSE mr.heap
        ts == to_string(h2, mr.root)
    IN  IF rt.status # 200 THEN Response(rt.status, "", ErrorPage)
        ELSE IF ~rt.rule.wrapped THEN Response(200, "", Empty)
        ELSE IF ~p.ok THEN Failure(p.err)
        ELSE IF ~hr.ok THEN Failure(hr.err)
        ELSE IF ~mr.ok THEN Failure(mr.err)
        ELSE IF ~ts.ok THEN Failure(ts.err)
        ELSE Response(200, "", ts.xml)

\* C9: with the requests served one after the other, no step changes the
\* handler bindings, and every exchange ends with the response the same
\* request (with the same handler behaviour) gets from a server that has
\* served nothing before, whatever exchanges failed or succeeded earlier.
C9_ErrorsAreLocal ==
    [][/\ overridden' = overridden
       /\ \A e \in Slots :
             pc'[e] = "done" =>
                resp'[e] = FirstOutcome(request'[e], overridden', e, choice'[e],
                                        edited'[e])
      ]_vars

\* C9 witness: an exchange that started after a failed one, and whose handler
\* returned the body a handler kept from an earlier exchange, ended in 200.
C9_Witness ==
    \E e \in Slots : \E g \in Slots \ {e} :
        /\ pc[e] = "done" /\ resp[e].status = 200
        /\ after[e] /\ choice[e] = "kept"
        /\ Failed(g) /\ choice[g] = "kept" /\ resp[g].error = "TypeError"

\* C10: the reply envelopes of two concurrent exchanges share no element with
\* each other or with a source envelope, and a serialised reply carries the
\* udi and the correlator of its own request.
C10_RepliesShareNothing ==
    \A e \in Slots :
        /\ rep[e] # Null =>
              /\ Reach(heap, rep[e]) \cap Reach(heap, req[e]) = {}
              /\ \A g \in Slots \ {e} :
                    /\ req[g] # Null
                          => Reach(heap, rep[e]) \cap Reach(heap, req[g]) = {}
                    /\ rep[g] # Null
                          => Reach(heap, rep[e]) \cap Reach(heap, rep[g]) = {}
        /\ (pc[e] = "done" /\ resp[e].status = 200 /\ WorkExchange(e)) =>
              /\ Get(resp[e].body.root.attrib, "udi") = Udis[Session[e]]
              /\ Get(resp[e].body.root.children[1].attrib, "correlator")
                    = Get(request[e].data.root.children[1].attrib, "correlator")

\* C11: every envelope made by make_reply from a session's request and a body
\* a builder returned can be written by to_string, and the envelope read back
\* by from_string from what was written has the same udi, username and
\* password, and a body with the same tag, attributes and subtree.
C11_RoundTrip ==
    /\ step = "to_string" => wire.ok
    /\ step = "from_string" =>
          /\ udi(objects, parsed) = udi(objects, envelope)
          /\ Get(objects[parsed].attrib, "username")
                = Get(objects[envelope].attrib, "username")
          /\ Get(objects[parsed].attrib, "password")
                = Get(objects[envelope].attrib, "password")
          /\ Doc(objects, body(objects, parsed)) = Doc(objects, body(objects, envelope))

\* C12: after username (password) was set to v on an envelope, reading it
\* returns v; on an envelope from_string returned, username (password) reads
\* the root's attribute, and reads None only when the attribute is absent.
C12_AccessorsGetSet ==
    /\ step = "set" =>
          /\ reads.username = reads.set_username
          /\ reads.password = reads.set_password
    /\ step = "from_string" =>
          /\ reads.username = Get(objects[parsed].attrib, "username")
          /\ reads.password = Get(objects[parsed].attrib, "password")
          /\ reads.username = None <=> "username" \notin DOMAIN objects[parsed].attrib
          /\ reads.password = None <=> "password" \notin DOMAIN objects[parsed].attrib

\* the body of the message that was read is the request or the info of a
\* work request, not a response
WorkRequestBody ==
    LET tag == objects[body(objects, parsed)].tag
    IN  Selects("request", tag) \/ Selects("info", tag)

\* C13: success reads None exactly when the body has no success attribute;
\* with the attribute "0" it reads False and with "1" True; on the body of a
\* work request it reads None, which is not False.
C13_SuccessOptional ==
    step = "success" =>
        LET attrib == objects[body(objects, parsed)].attrib
            r == reads.success
        IN  /\ (r.ok /\ r.value = None) <=> "success" \notin DOMAIN attrib
            /\ Get(attrib, "success") = "0" => r.ok /\ r.value = False
            /\ Get(attrib, "success") = "1" => r.ok /\ r.value = True
            /\ WorkRequestBody => r.ok /\ r.value = None /\ r.value # False

\* C13 witness: success was read as None on the request body of a work
\* request.
C13_Witness ==
    /\ step = "success"
    /\ Selects("request", objects[body(objects, parsed)].tag)
    /\ reads.success.ok
    /\ reads.success.value = None

\* the children of the backoff element of the body that was built
BackoffChildren == Doc(objects, built).children[1].children

InvalidArguments ==
    LET a == called.args
    IN  \/ /\ called.name = "backoff"
           /\ LET timer == a.hours # 0 \/ a.minutes # 0 \/ a.seconds # 0
                  default == a.default_minutes # 0
              IN  \/ a.terminate /\ default
                  \/ a.terminate /\ timer
                  \/ default /\ timer
                  \/ a.hours \notin 0 .. 47
                  \/ a.minutes \notin 0 .. 59
                  \/ a.seconds \notin 0 .. 59
                  \/ default /\ a.default_minutes \notin 1 .. 2880
        \/ called.name = "cli_config" /\ a.write /\ a.check

\* C15: a builder called with contradictory or out-of-range arguments is
\* rejected and returns no element.
C15_InvalidArgumentsRejected ==
    (step = "built" /\ called.name \in {"backoff", "cli_config"} /\ InvalidArguments)
        => built = Null

\* C16: cli_exec with check false writes the entries of commands in their
\* order under execCLI: a cmd leaf with the text of a str entry, and for a
\* tuple (expect, reply) a dialog with repeat "1" holding an expect element
\* with match "exact", caseSensitive "True" (strings) and the text expect,
\* then a reply element with the text reply.
C16_CliExecEntries ==
    (step = "built" /\ called.name = "cli_exec" /\ ~called.args.check) =>
        LET commands == called.args.commands
            exec == Doc(objects, built).children[1]
        IN  /\ exec.tag = "execCLI"
            /\ Len(exec.children) = Len(commands)
            /\ \A i \in DOMAIN commands :
                  LET c == commands[i]
                      e == exec.children[i]
                  IN  /\ c.str => e = Element("cmd", NoAttrib, c.text, <<>>)
                      /\ (~c.str /\ Len(c.items) = 2) =>
                            /\ e.tag = "dialog"
                            /\ e.attrib = Put(NoAttrib, "repeat", "1")
                            /\ e.children =
                                  <<Element("expect",
                                            Put(Put(NoAttrib, "match", "exact"),
                                                "caseSensitive", "True"),
                                            c.items[1], <<>>),
                                    Element("reply", NoAttrib, c.items[2], <<>>)>>

\* the string has the form PID:<p>,VID:<v>,SN:<s> from its start, with
\* something for each of p, v and s
HasUdiForm(string) ==
    /\ string # None
    /\ LET p == Pieces(string)
       IN  /\ Len(p) >= 6
           /\ p[1] = "PID:"
           /\ \E i \in 3 .. Len(p) : \E j \in i + 2 .. Len(p) - 1 :
                 p[i] = ",VID:" /\ p[j] = ",SN:"

\* C17: decoding a message whose udi has not the form PID:<p>,VID:<v>,SN:<s>
\* fails with MalformedUdiError, no other failure of the decoder is a
\* MalformedUdiError, and a mapping that is returned holds PID, VID and SN
\* taken from the udi.
C17_MalformedUdiRejected ==
    step = "to_dict" =>
        LET string == udi(objects, parsed)
        IN  /\ (string # None /\ ~HasUdiForm(string))
                  => ~info.ok /\ info.err = "MalformedUdiError"
            /\ (HasUdiForm(string) /\ ~info.ok) => info.err # "MalformedUdiError"
            /\ info.ok =>
                  /\ {"PID", "VID", "SN"} \subseteq DOMAIN info.info
                  /\ \A k \in {"PID", "VID", "SN"} : info.info[k] \notin {"", None}

\* to_dict of a message as it arrives
Decoded(text) ==
    LET r == from_string(<<>>, "app", text)
    IN  to_dict(r.heap, r.root)

\* the keys a section of the response contributes to the mapping
SectionKeys ==
    [udi |-> {"primary-chassis", "stacked-switch", "ha-device"},
     imageInfo |-> {ImageInfoNames[i] : i \in DOMAIN ImageInfoNames},
     hardwareInfo |-> {HardwareInfoNames[i] : i \in DOMAIN HardwareInfoNames},
     fileSystemList |-> {"fileSystemList"},
     profileInfo |-> {"profileInfo"}]

\* the section elements with this local name among these elements
SectionsNamed(local, sections) ==
    {sections[i] : i \in {j \in DOMAIN sections :
                             sections[j].tag = QName("urn:cisco:pnp:device-info", local)}}

\* a mapping, on the keys of keys it has
Only(mapping, keys) == [k \in keys \cap DOMAIN mapping |-> mapping[k]]

\* C18: a device-info response with a valid udi and any subset of its five
\* sections (each one complete when present) decodes to a mapping without
\* raising; the keys of an absent section are absent from the mapping, and the
\* keys of a present section have the values they have in the mapping of every
\* response that has all five sections and the same element for this section
C18_SectionsOptional ==
    step = "to_dict" =>
        \A s \in SectionChoices :
            message = AgentMessage(WithUdi(Udis[1]), ResponseBody("1", s)) =>
                /\ info.ok
                /\ {"PID", "VID", "SN"} \subseteq DOMAIN info.info
                /\ \A local \in DOMAIN SectionKeys :
                      IF SectionsNamed(local, s) = {}
                      THEN SectionKeys[local] \cap DOMAIN info.info = {}
                      ELSE \A t \in SectionChoices :
                              (Len(t) = 5 /\ SectionsNamed(local, s) = SectionsNamed(local, t))
                                  => LET all == Decoded(AgentMessage(WithUdi(Udis[1]),
                                                                     ResponseBody("1", t)))
                                     IN  /\ all.ok
                                         /\ Only(all.info, SectionKeys[local]) # <<>>
                                         /\ Only(info.info, SectionKeys[local])
                                            = Only(all.info, SectionKeys[local])

\* a response with hardwareInfo and profileInfo only has been decoded: the
\* mapping has their keys and none of the other three sections
C18_Witness ==
    /\ step = "to_dict"
    /\ \E w \in HardwareInfos, p \in ProfileInfos :
          message = AgentMessage(WithUdi(Udis[1]), ResponseBody("1", <<w, p>>))
    /\ info.ok
    /\ {"hostname", "profileInfo"} \subseteq DOMAIN info.info
    /\ {"versionString", "primary-chassis", "fileSystemList"} \cap DOMAIN info.info = {}

\* the record of a server element agrees with the children of its
\* server-address: the port from a child whose tag contains 'port', the
\* address and its type from any other child, no port without a port child
ServerRecordAgrees(h, server, record) ==
    LET address == find(h, server, "server-address")
        kids == {h[address].children[i] : i \in DOMAIN h[address].children}
    IN  /\ \A c \in kids :
              IF HasPort(h[c].tag)
              THEN "port" \in DOMAIN record /\ record["port"] = h[c].text
              ELSE /\ {"server-address", "server-address-type"} \subseteq DOMAIN record
                   /\ record["server-address"] = h[c].text
                   /\ record["server-address-type"] = h[c].tag
        /\ (\A c \in kids : ~HasPort(h[c].tag)) => "port" \notin DOMAIN record

\* C19: in every decoded profile, the primary-server record and the
\* backup-server record (when the profile has a backup server) both take port
\* from the port child of server-address, take server-address and
\* server-address-type from the other child, and have no port without a port
\* child
C19_ServerAddressRecords ==
    (step = "to_dict" /\ info.ok /\ "profileInfo" \in DOMAIN info.info) =>
        LET response == find(objects, parsed, "response")
            profiles == objects[find(objects, response, "profileInfo")].children
        IN  \A i \in DOMAIN profiles :
                \A role \in {"primary-server", "backup-server"} :
                    LET server == find(objects, profiles[i], role)
                    IN  server # Null =>
                            /\ role \in DOMAIN info.info["profileInfo"][i]
                            /\ ServerRecordAgrees(objects, server,
                                                  info.info["profileInfo"][i][role])

\* the udi string a PID, VID, SN triple stands for
UdiOf(d) == "PID:" \o d["PID"] \o ",VID:" \o d["VID"] \o ",SN:" \o d["SN"]

\* C20: a device-info response with all five sections and a udi of the form
\* PID:..,VID:..,SN:.. decodes to a mapping with PID, VID and SN of the
\* envelope's udi, the primary-chassis triple, the text of every leaf of
\* imageInfo and hardwareInfo (None for an empty element), one fileSystemList
\* record per fileSystem in document order with its six attributes, and one
\* profileInfo record per profile in document order
C20_FullDecode ==
    step = "to_dict" =>
        \A u \in {s \in UdiStrings \cup {Udis[1]} : HasUdiForm(s)} :
            \A t \in {c \in SectionChoices : Len(c) = 5} :
                message = AgentMessage(WithUdi(u), ResponseBody("1", t)) =>
                    /\ info.ok
                    /\ {"PID", "VID", "SN", "primary-chassis", "fileSystemList",
                        "profileInfo"} \subseteq DOMAIN info.info
                    /\ UdiOf(info.info) = u
                    /\ UdiOf(info.info["primary-chassis"]) = t[1].children[1].text
                    /\ \A i \in DOMAIN ImageInfoNames :
                          /\ ImageInfoNames[i] \in DOMAIN info.info
                          /\ info.info[ImageInfoNames[i]] = t[2].children[i].text
                          /\ info.info[ImageInfoNames[i]] = SampleText[ImageInfoNames[i]]
                    /\ \A i \in DOMAIN HardwareInfoNames :
                          /\ HardwareInfoNames[i] \in DOMAIN info.info
                          /\ info.info[HardwareInfoNames[i]] = t[3].children[i].text
                          /\ info.info[HardwareInfoNames[i]] = SampleText[HardwareInfoNames[i]]
                    /\ info.info["boardReworkId"] = None
                    /\ Len(info.info["fileSystemList"]) = Len(t[4].children)
                    /\ \A i \in DOMAIN t[4].children :
                          /\ DOMAIN info.info["fileSystemList"][i] = FileSystemNames
                          /\ \A k \in FileSystemNames :
                                info.info["fileSystemList"][i][k] = t[4].children[i].attrib[k]
                    /\ Len(info.info["profileInfo"]) = Len(t[5].children)
                    /\ \A i \in DOMAIN t[5].children :
                          /\ \A k \in DOMAIN t[5].children[i].attrib :
                                info.info["profileInfo"][i][k] = t[5].children[i].attrib[k]
                          /\ "primary-server" \in DOMAIN info.info["profileInfo"][i]

\* the response with all sections, two file systems and two profiles has
\* been decoded
C20_Witness ==
    /\ step = "to_dict"
    /\ info.ok
    /\ {"versionString", "hostname", "primary-chassis", "fileSystemList", "profileInfo"}
           \subseteq DOMAIN info.info
    /\ info.info["PID"] = "A"
    /\ info.info["boardReworkId"] = None
    /\ Len(info.info["fileSystemList"]) = 2
    /\ info.info["fileSystemList"][1]["name"] = "nvram"
    /\ info.info["fileSystemList"][2]["freespace"] = "141590528"
    /\ Len(info.info["profileInfo"]) = 2
    /\ info.info["profileInfo"][2]["profile-name"] = "second"

\* C21: when make_reply(B) returns, the body of the reply is the object B
\* itself and B carries the correlator of the receiver; a reply built earlier
\* with the same B still has B as its body, so its correlator is now the one
\* of the call that ran last
C21_BodyInstalledInPlace ==
    [][\A e \in Slots :
          (pc[e] = "make_reply" /\ pc'[e] = "to_string") =>
              /\ out[e] \in DOMAIN heap
              /\ body(heap', rep'[e]) = out[e]
              /\ Get(heap'[out[e]].attrib, "correlator") = correlator(heap, req[e])
              /\ \A f \in Slots \ {e} :
                    (rep[f] # Null /\ body(heap, rep[f]) = out[e]) =>
                        /\ body(heap', rep[f]) = out[e]
                        /\ correlator(heap', rep[f]) = correlator(heap, req[e])]_vars

\* two replies made from requests with different correlators have the same
\* object as body, and it carries the correlator of one of the requests only
C21_Witness ==
    \E e \in Slots : \E f \in Slots \ {e} :
        /\ rep[e] # Null
        /\ rep[f] # Null
        /\ body(heap, rep[e]) = body(heap, rep[f])
        /\ correlator(heap, req[e]) # correlator(heap, req[f])
        /\ correlator(heap, rep[e]) = correlator(heap, req[e])
        /\ correlator(heap, rep[f]) = correlator(heap, req[e])

\* C22: the reply is made from the request envelope as the handler left it:
\* in the step in which make_reply returns, the username and the password on
\* the reply's root are those on the request's root at that time, and the
\* correlator on the reply's body is the one the request's body carries at
\* that time; so when the handler has set them on the request it was given,
\* the reply has the values the handler set and not those that arrived
C22_ReplyMadeAfterHandler ==
    [][\A e \in Slots :
          (pc[e] = "make_reply" /\ pc'[e] = "to_string") =>
              LET root == heap'[rep'[e]]
              IN  /\ \A k \in {"username", "password"} :
                        /\ k \in DOMAIN root.attrib <=> k \in DOMAIN heap[req[e]].attrib
                        /\ Get(root.attrib, k) = Get(heap[req[e]].attrib, k)
                  /\ correlator(heap', rep'[e]) = correlator(heap, req[e])
                  /\ choice[e] = "login" =>
                        /\ Get(root.attrib, "username") = HandlerUsername
                        /\ Get(root.attrib, "password") = HandlerPassword
                        /\ correlator(heap', rep'[e]) = HandlerCorrelator
                  /\ choice[e] # "login" =>
                        /\ \A k \in {"username", "password"} :
                              Get(root.attrib, k) = Get(request[e].data.root.attrib, k)
                        /\ correlator(heap', rep'[e])
                              = Get(request[e].data.root.children[1].attrib, "correlator")]_vars

\* a request that arrived with credentials and a correlator got a reply with
\* the credentials and the correlator its handler set, and it was sent
C22_Witness ==
    \E e \in Slots :
        /\ pc[e] = "done"
        /\ resp[e].status = 200
        /\ choice[e] = "login"
        /\ Get(request[e].data.root.attrib, "username") = "admin"
        /\ Get(request[e].data.root.children[1].attrib, "correlator")
              = Correlators[Session[e]]
        /\ Get(resp[e].body.root.attrib, "username") = HandlerUsername
        /\ Get(resp[e].body.root.attrib, "password") = HandlerPassword
        /\ Get(resp[e].body.root.children[1].attrib, "correlator") = HandlerCorrelator

====
